---- MODULE Spec2Model ----
(***************************************************************************)
(* Model of contrib/generate_icons.py: the script fetches the Font Awesome *)
(* icon metadata, parses it as YAML and prints an [icons] table.           *)
(*                                                                         *)
(* Conventions.  A character is represented by its code point (an         *)
(* integer), a string that the script parses (the `unicode` field) by the  *)
(* sequence of its characters written as one-character strings, any other  *)
(* string by a TLA+ string.  A line of standard output is the tuple of the *)
(* pieces the f-string puts together, in order.  A mapping key that is not *)
(* a string (the key 404 of the body "404: Not Found") is represented by   *)
(* the text str() gives it.  Standard output is taken to accept every      *)
(* character.                                                              *)
(***************************************************************************)
EXTENDS Integers, Sequences, FiniteSets, TLC

VARIABLES
    pc,           \* position of the process in the script
    argv,         \* the command line: [given, revision, include_aliases]
    URI,          \* module-level URI built by the __main__ block
    gets,         \* the GET requests made so far, in order
    response,     \* what requests.get returned
    icons_dict,   \* what yaml.full_load returned
    out,          \* the lines written to standard output, in order
    idx,          \* index of the catalog entry being processed
    names,        \* the names of that entry still to be printed
    exc,          \* the uncaught exception that ended the run, "none" if none
    hex_code,     \* argument of a stand-alone call of unicode_symbol
    symbol        \* result of that call

vars == <<pc, argv, URI, gets, response, icons_dict, out, idx, names, exc,
          hex_code, symbol>>

----------------------------------------------------------------------------
(* Bounds of the model *)

MaxEntries == 2
MaxHexLen == 4

----------------------------------------------------------------------------
(* int(hex_code, 16) and chr() *)

HexDigits == {"0", "1", "2", "3", "4", "5", "6", "7", "8", "9",
              "a", "b", "c", "d", "e", "f", "A", "B", "C", "D", "E", "F"}

\* Variant: a table of the lower-case digits only.
DigitValue_lower_only(c) ==
    CASE c = "0" -> 0  [] c = "1" -> 1  [] c = "2" -> 2  [] c = "3" -> 3
      [] c = "4" -> 4  [] c = "5" -> 5  [] c = "6" -> 6  [] c = "7" -> 7
      [] c = "8" -> 8  [] c = "9" -> 9
      [] c = "a" -> 10  [] c = "b" -> 11  [] c = "c" -> 12
      [] c = "d" -> 13  [] c = "e" -> 14  [] c = "f" -> 15
      [] OTHER -> 0

DigitValue(c) ==
    CASE c = "0" -> 0  [] c = "1" -> 1  [] c = "2" -> 2  [] c = "3" -> 3
      [] c = "4" -> 4  [] c = "5" -> 5  [] c = "6" -> 6  [] c = "7" -> 7
      [] c = "8" -> 8  [] c = "9" -> 9
      [] c \in {"a", "A"} -> 10  [] c \in {"b", "B"} -> 11
      [] c \in {"c", "C"} -> 12  [] c \in {"d", "D"} -> 13
      [] c \in {"e", "E"} -> 14  [] c \in {"f", "F"} -> 15

\* The result of a call: a value, or the exception it raised.
Value(v) == [ok |-> TRUE, val |-> v, exc |-> "none"]
Raise(e) == [ok |-> FALSE, val |-> 0, exc |-> e]

RECURSIVE LStrip(_)
LStrip(s) == IF s # <<>> /\ Head(s) = " " THEN LStrip(Tail(s)) ELSE s

RECURSIVE RStrip(_)
RStrip(s) ==
    IF s # <<>> /\ s[Len(s)] = " " THEN RStrip(SubSeq(s, 1, Len(s) - 1)) ELSE s

\* Digits with single underscores between them (an underscore may also follow
\* the 0x prefix): accumulates most significant digit first.
RECURSIVE ParseDigits(_, _, _)
ParseDigits(s, acc, afterDigit) ==
    IF s = <<>> THEN (IF afterDigit THEN Value(acc) ELSE Raise("ValueError"))
    ELSE IF Head(s) = "_"
         THEN IF afterDigit /\ Len(s) > 1 /\ s[2] # "_"
              THEN ParseDigits(Tail(s), acc, FALSE)
              ELSE Raise("ValueError")
    ELSE IF Head(s) \in HexDigits
         THEN ParseDigits(Tail(s), acc * 16 + DigitValue(Head(s)), TRUE)
    ELSE Raise("ValueError")

ParseUnsigned(s) ==
    IF Len(s) >= 2 /\ s[1] = "0" /\ s[2] \in {"x", "X"}
    THEN LET r == SubSeq(s, 3, Len(s))
         IN  IF r # <<>> /\ Head(r) = "_"
             THEN ParseDigits(Tail(r), 0, FALSE)
             ELSE ParseDigits(r, 0, FALSE)
    ELSE ParseDigits(s, 0, FALSE)

\* int(s, 16)
Int16(s) ==
    LET t == RStrip(LStrip(s))
    IN  IF t # <<>> /\ Head(t) = "-"
        THEN LET r == ParseUnsigned(Tail(t))
             IN  IF r.ok THEN Value(0 - r.val) ELSE r
        ELSE IF t # <<>> /\ Head(t) = "+" THEN ParseUnsigned(Tail(t))
        ELSE ParseUnsigned(t)

MaxCodePoint == 1114111

\* Variant: no range check.
Chr_unchecked(n) == Value(n)

\* chr(n)
Chr(n) == IF n >= 0 /\ n <= MaxCodePoint THEN Value(n) ELSE Raise("ValueError")

unicode_symbol(hex) ==
    LET n == Int16(hex) IN IF n.ok THEN Chr(n.val) ELSE n

----------------------------------------------------------------------------
(* Output lines *)

HeaderLine == <<"[icons]">>

\* f'"(?i){name}" = "{symbol}"'
FormatLine(name, sym) == <<"\"(?i)", name, "\" = \"", sym, "\"">>

\* Variant: another glyph.
term_icon_f121 == <<"f", "1", "2", "1">>

term_icon == <<"f", "1", "2", "0">>

\* Variant: the pieces are written one by one, the decoding in between.
PrintIcon_piecewise(o, name, hex) ==
    LET r == unicode_symbol(hex)
    IN  IF r.ok THEN [out |-> Append(o, FormatLine(name, r.val)), exc |-> "none"]
        ELSE [out |-> Append(o, <<"\"(?i)", name, "\" = \"">>), exc |-> r.exc]

\* print(f'"(?i){name}" = "{unicode_symbol(hex)}"') on standard output o: the
\* f-string is evaluated completely before print is called.
PrintIcon(o, name, hex) ==
    LET r == unicode_symbol(hex)
    IN  IF r.ok THEN [out |-> Append(o, FormatLine(name, r.val)), exc |-> "none"]
        ELSE [out |-> o, exc |-> r.exc]

----------------------------------------------------------------------------
(* The inputs: command lines and what the network returns *)

DefaultRevision == "master"

\* --revision left out, or given as v6; --include_aliases present or not.
Argvs ==
    {[given |-> FALSE, revision |-> "", include_aliases |-> a] : a \in BOOLEAN}
    \cup {[given |-> TRUE, revision |-> "v6", include_aliases |-> a] :
              a \in BOOLEAN}

\* The `unicode` fields: a code point, text that is not hexadecimal, and a
\* number past the last code point.
Unicodes == {<<"f", "2", "6", "e">>, <<"x", "y", "z">>,
             <<"1", "1", "0", "0", "0", "0">>}

\* icon["search"]["terms"]: one of the keys absent, null, or a list.
SearchOptions ==
    {[search |-> "absent", terms |-> <<>>],
     [search |-> "null", terms |-> <<>>],
     [search |-> "list", terms |-> <<"px", "", "x">>]}

IconNames == {"", "500px", "github"}

\* The one entry of the document that the body "404: Not Found" parses to:
\* the key 404 with a string, not a mapping, as its value.
Entry404 ==
    [name |-> "404", isMapping |-> FALSE, unicode |-> <<>>,
     search |-> "absent", terms |-> <<>>]

Entries ==
    {[name |-> n, isMapping |-> TRUE, unicode |-> u,
      search |-> s.search, terms |-> s.terms] :
        n \in IconNames, u \in Unicodes, s \in SearchOptions}

\* The items of a mapping in iteration order: its keys are distinct.
Catalogs ==
    UNION {{c \in [1..n -> Entries] :
               \A a, b \in 1..n : a < b => c[a].name # c[b].name} :
           n \in 0..MaxEntries}

Unparseable == [parses |-> FALSE, isMapping |-> FALSE, items |-> <<>>]
ScalarDoc == [parses |-> TRUE, isMapping |-> FALSE, items |-> <<>>]
MappingDoc(c) == [parses |-> TRUE, isMapping |-> TRUE, items |-> c]

Bodies == {Unparseable, ScalarDoc} \cup {MappingDoc(c) : c \in Catalogs}

\* Bodies sent with a non-success status; the third is GitHub's "404: Not Found".
ErrorBodies == {Unparseable, ScalarDoc, MappingDoc(<<Entry404>>), MappingDoc(<<>>)}

Responses ==
    {[status |-> 200, text |-> b] : b \in Bodies}
    \cup {[status |-> 404, text |-> b] : b \in ErrorBodies}

NoResponse == [status |-> 0, text |-> Unparseable]
NoResult == Raise("none")

\* Arguments of the stand-alone calls of unicode_symbol.
HexAlphabet == {"0", "1", "2", "a", "f", "F", "g", "x", "_", "-"}

HexInputs == UNION {[1..n -> HexAlphabet] : n \in 0..MaxHexLen}

----------------------------------------------------------------------------
(* The script *)

Init ==
    /\ pc = "start"
    /\ argv \in Argvs
    /\ URI = ""
    /\ gets = <<>>
    /\ response = NoResponse
    /\ icons_dict = Unparseable
    /\ out = <<>>
    /\ idx = 0
    /\ names = <<>>
    /\ exc = "none"
    /\ hex_code = <<>>
    /\ symbol = NoResult

\* argparse: --revision defaults to "master".
Revision(a) == IF a.given THEN a.revision ELSE DefaultRevision

\* Variant: the revision is not substituted.
BuildURI_fixed(rev) ==
    "https://raw.githubusercontent.com"
        \o ("/FortAwesome/Font-Awesome/" \o DefaultRevision \o "/metadata/icons.yml")

BuildURI(rev) ==
    "https://raw.githubusercontent.com"
        \o ("/FortAwesome/Font-Awesome/" \o rev \o "/metadata/icons.yml")

\* Variant: the header is printed before main is called.
ParseArgs_header_first ==
    /\ pc = "start"
    /\ URI' = BuildURI(Revision(argv))
    /\ out' = Append(out, HeaderLine)
    /\ pc' = "get"
    /\ UNCHANGED <<argv, gets, response, icons_dict, idx, names, exc,
                   hex_code, symbol>>

\* The __main__ block up to the call of main.
ParseArgs ==
    /\ pc = "start"
    /\ URI' = BuildURI(Revision(argv))
    /\ pc' = "get"
    /\ UNCHANGED <<argv, gets, response, icons_dict, out, idx, names, exc,
                   hex_code, symbol>>

\* requests.get(uri) raises: the request could not be completed.
GetRaises ==
    /\ pc = "get"
    /\ gets' = Append(gets, URI)
    /\ exc' = "ConnectionError"
    /\ pc' = "failed"
    /\ UNCHANGED <<argv, URI, response, icons_dict, out, idx, names,
                   hex_code, symbol>>

\* requests.get(uri) returns a response, whatever its status.
GetReturns ==
    /\ pc = "get"
    /\ gets' = Append(gets, URI)
    /\ \E r \in Responses : response' = r
    /\ pc' = "load"
    /\ UNCHANGED <<argv, URI, icons_dict, out, idx, names, exc,
                   hex_code, symbol>>

\* yaml.full_load(response.text)
FullLoad ==
    /\ pc = "load"
    /\ IF response.text.parses
       THEN /\ icons_dict' = response.text
            /\ pc' = "header"
            /\ exc' = exc
       ELSE /\ icons_dict' = icons_dict
            /\ pc' = "failed"
            /\ exc' = "YAMLError"
    /\ UNCHANGED <<argv, URI, gets, response, out, idx, names,
                   hex_code, symbol>>

\* print("[icons]")
PrintHeader ==
    /\ pc = "header"
    /\ out' = Append(out, HeaderLine)
    /\ pc' = "alacritty"
    /\ UNCHANGED <<argv, URI, gets, response, icons_dict, idx, names, exc,
                   hex_code, symbol>>

\* print_custom_icons, first print
PrintAlacritty ==
    /\ pc = "alacritty"
    /\ LET r == PrintIcon(out, "alacritty", term_icon)
       IN  /\ out' = r.out
           /\ exc' = r.exc
           /\ pc' = IF r.exc = "none" THEN "kitty" ELSE "failed"
    /\ UNCHANGED <<argv, URI, gets, response, icons_dict, idx, names,
                   hex_code, symbol>>

\* print_custom_icons, second print; print_icon_names is called next
PrintKitty ==
    /\ pc = "kitty"
    /\ LET r == PrintIcon(out, "kitty", term_icon)
       IN  /\ out' = r.out
           /\ exc' = r.exc
           /\ pc' = IF r.exc = "none" THEN "icons" ELSE "failed"
    /\ idx' = 1
    /\ UNCHANGED <<argv, URI, gets, response, icons_dict, names,
                   hex_code, symbol>>

\* Variant: nothing is filtered out.
FilterNonEmpty_keep_all(ns) == ns

\* filter(lambda x: x != "", names)
RECURSIVE FilterNonEmpty(_)
FilterNonEmpty(ns) ==
    IF ns = <<>> THEN <<>>
    ELSE IF Head(ns) # "" THEN <<Head(ns)>> \o FilterNonEmpty(Tail(ns))
    ELSE FilterNonEmpty(Tail(ns))

\* Variant: the aliases are added whether asked for or not.
BuildNames_always_aliases(icon, include_aliases) ==
    IF ~icon.isMapping THEN Raise("TypeError")
    ELSE IF icon.search = "absent" THEN Raise("KeyError")
    ELSE IF icon.search = "null" THEN Value(<<icon.name>>)
    ELSE Value(<<icon.name>> \o icon.terms)

\* Variant: the aliases come before the primary name.
BuildNames_aliases_first(icon, include_aliases) ==
    IF ~include_aliases THEN Value(<<icon.name>>)
    ELSE IF ~icon.isMapping THEN Raise("TypeError")
    ELSE IF icon.search = "absent" THEN Raise("KeyError")
    ELSE IF icon.search = "null" THEN Value(<<icon.name>>)
    ELSE Value(icon.terms \o <<icon.name>>)

\* names = [icon_name] + (icon["search"]["terms"] if include_aliases and
\*                        icon["search"]["terms"] is not None else [])
BuildNames(icon, include_aliases) ==
    IF ~include_aliases THEN Value(<<icon.name>>)
    ELSE IF ~icon.isMapping THEN Raise("TypeError")
    ELSE IF icon.search = "absent" THEN Raise("KeyError")
    ELSE IF icon.search = "null" THEN Value(<<icon.name>>)
    ELSE Value(<<icon.name>> \o icon.terms)

\* icons_dict.items() has no attribute items when the document is no mapping.
ItemsRaises ==
    /\ pc = "icons"
    /\ ~icons_dict.isMapping
    /\ exc' = "AttributeError"
    /\ pc' = "failed"
    /\ UNCHANGED <<argv, URI, gets, response, icons_dict, out, idx, names,
                   hex_code, symbol>>

\* The outer loop takes the next item and builds its list of names.
NextIcon ==
    /\ pc = "icons"
    /\ icons_dict.isMapping
    /\ idx <= Len(icons_dict.items)
    /\ LET r == BuildNames(icons_dict.items[idx], argv.include_aliases)
       IN  IF ~r.ok
           THEN /\ exc' = r.exc
                /\ pc' = "failed"
                /\ UNCHANGED <<names, idx>>
           ELSE /\ exc' = exc
                /\ names' = FilterNonEmpty(r.val)
                /\ IF names' = <<>>
                   THEN pc' = "icons" /\ idx' = idx + 1
                   ELSE pc' = "names" /\ idx' = idx
    /\ UNCHANGED <<argv, URI, gets, response, icons_dict, out,
                   hex_code, symbol>>

\* One turn of the inner loop: icon["unicode"] is looked up and decoded when
\* the line is formatted.
PrintName ==
    /\ pc = "names"
    /\ LET icon == icons_dict.items[idx]
           r == IF icon.isMapping
                THEN PrintIcon(out, Head(names), icon.unicode)
                ELSE [out |-> out, exc |-> "TypeError"]
       IN  /\ out' = r.out
           /\ exc' = r.exc
           /\ IF r.exc # "none"
              THEN pc' = "failed" /\ UNCHANGED <<names, idx>>
              ELSE /\ names' = Tail(names)
                   /\ IF names' = <<>>
                      THEN pc' = "icons" /\ idx' = idx + 1
                      ELSE pc' = "names" /\ idx' = idx
    /\ UNCHANGED <<argv, URI, gets, response, icons_dict, hex_code, symbol>>

\* The items are exhausted: main returns and the process exits with status 0.
Exit ==
    /\ pc = "icons"
    /\ icons_dict.isMapping
    /\ idx > Len(icons_dict.items)
    /\ pc' = "done"
    /\ UNCHANGED <<argv, URI, gets, response, icons_dict, out, idx, names, exc,
                   hex_code, symbol>>

Next ==
    \/ ParseArgs
    \/ GetRaises
    \/ GetReturns
    \/ FullLoad
    \/ PrintHeader
    \/ PrintAlacritty
    \/ PrintKitty
    \/ ItemsRaises
    \/ NextIcon
    \/ PrintName
    \/ Exit

Spec == Init /\ [][Next]_vars

----------------------------------------------------------------------------
(* unicode_symbol called on its own *)

InitHex ==
    /\ pc = "call"
    /\ hex_code \in HexInputs
    /\ symbol = NoResult
    /\ argv = [given |-> FALSE, revision |-> "", include_aliases |-> FALSE]
    /\ URI = ""
    /\ gets = <<>>
    /\ response = NoResponse
    /\ icons_dict = Unparseable
    /\ out = <<>>
    /\ idx = 0
    /\ names = <<>>
    /\ exc = "none"

CallUnicodeSymbol ==
    /\ pc = "call"
    /\ symbol' = unicode_symbol(hex_code)
    /\ pc' = "returned"
    /\ UNCHANGED <<argv, URI, gets, response, icons_dict, out, idx, names, exc,
                   hex_code>>

NextHex == CallUnicodeSymbol

SpecHex == InitHex /\ [][NextHex]_vars

----------------------------------------------------------------------------
(* What the output should be, stated without the loops of the script *)

Line(name, cp) == <<"\"(?i)", name, "\" = \"", cp, "\"">>

AlacrittyLine == <<"\"(?i)", "alacritty", "\" = \"", 61728, "\"">>
KittyLine == <<"\"(?i)", "kitty", "\" = \"", 61728, "\"">>
Preamble == << <<"[icons]">>, AlacrittyLine, KittyLine >>

WellFormedLine(l) ==
    /\ Len(l) = 5
    /\ l[1] = "\"(?i)"
    /\ l[3] = "\" = \""
    /\ l[5] = "\""
    /\ l[4] \in 0..1114111

Items == icons_dict.items
CatalogLines == SubSeq(out, 4, Len(out))
InCatalog == icons_dict.isMapping /\ pc \in {"icons", "names", "done", "failed"}

\* The names an entry is printed under: the primary name, then the aliases when
\* they are asked for and are a list, the empty ones left out.
Candidates(e, inc) ==
    IF inc /\ e.search = "list" THEN <<e.name>> \o e.terms ELSE <<e.name>>
Surviving(e, inc) == SelectSeq(Candidates(e, inc), LAMBDA n : n # "")

\* Of the `unicode` fields of the inputs only f26e denotes a character, U+F26E;
\* xyz is not hexadecimal and 110000 is past the last code point U+10FFFF.
Decodes(e) == e.unicode = <<"f", "2", "6", "e">>
SymbolOf(e) == IF Decodes(e) THEN 62062 ELSE 0

LinesFor(ns, e) == [k \in 1..Len(ns) |-> Line(ns[k], SymbolOf(e))]

RECURSIVE ExpectedUpTo(_, _)
ExpectedUpTo(k, inc) ==
    IF k = 0 THEN <<>>
    ELSE ExpectedUpTo(k - 1, inc) \o LinesFor(Surviving(Items[k], inc), Items[k])

\* Entries before idx are complete; of entry idx the names still in `names`
\* are the ones not yet printed.
WrittenSoFar(inc) ==
    IF pc = "names"
    THEN CatalogLines \o LinesFor(names, Items[idx])
            = ExpectedUpTo(idx, inc)
    ELSE CatalogLines = ExpectedUpTo(idx - 1, inc)

----------------------------------------------------------------------------
(* Claims *)

\* C1: whenever anything has been written, line 1 is the header [icons], line
\* 2 the alacritty line and line 3 the kitty line, both with the character
\* U+F120, and print_icon_names starts only after all three are written.
C1_PreambleFirst ==
    /\ \A i \in 1..Len(out) : i <= 3 => out[i] = Preamble[i]
    /\ idx = 0 => Len(out) <= 2
    /\ idx >= 1 => Len(out) >= 3

C1_Witness ==
    /\ pc = "done"
    /\ Len(out) > 3
    /\ argv.include_aliases

\* C2: without --include_aliases the catalog lines are, at every moment, one
\* line per processed entry whose primary name is not empty, carrying that
\* name and the decoded symbol, and nothing else, whatever the aliases are.
RECURSIVE PrimaryLines(_)
PrimaryLines(k) ==
    IF k = 0 THEN <<>>
    ELSE PrimaryLines(k - 1) \o
         (IF Items[k].name # ""
          THEN << Line(Items[k].name, SymbolOf(Items[k])) >> ELSE <<>>)

C2_PrimaryNamesOnly ==
    (InCatalog /\ ~argv.include_aliases) =>
        /\ CatalogLines = PrimaryLines(idx - 1)
        /\ pc = "done" => idx = Len(Items) + 1

C2_Witness ==
    /\ pc = "done"
    /\ ~argv.include_aliases
    /\ \E k \in 1..Len(Items) :
          Items[k].name = "500px" /\ Items[k].terms = <<"px", "", "x">>
    /\ \E k \in 1..Len(Items) :
          Items[k].name # "" /\ Items[k].search = "absent"

\* C3: with --include_aliases each entry yields its primary name, then its
\* non-empty aliases in their order, all with the entry's symbol; entries come
\* in catalog order and are not interleaved; a null alias list counts as empty.
C3_PrimaryThenAliases ==
    (InCatalog /\ argv.include_aliases) =>
        /\ WrittenSoFar(TRUE)
        /\ pc = "done" => idx = Len(Items) + 1

C3_Witness ==
    /\ pc = "done"
    /\ argv.include_aliases
    /\ Len(Items) = 2
    /\ Items[1].name = "500px" /\ Items[1].terms = <<"px", "", "x">>
    /\ Items[2].name = "github" /\ Items[2].search = "null"
    /\ Len(out) = 7

\* C4: no catalog line has an empty name, and in a run that completes every
\* non-empty name of every entry has its line.
C4_NoEmptyName ==
    /\ \A i \in 4..Len(out) : out[i][2] # ""
    /\ (pc = "done") =>
          \A k \in 1..Len(Items) :
             LET c == Candidates(Items[k], argv.include_aliases)
             IN  \A m \in 1..Len(c) :
                    c[m] # "" =>
                       \E i \in 4..Len(out) :
                          out[i] = Line(c[m], SymbolOf(Items[k]))

C4_Witness ==
    /\ pc = "done"
    /\ argv.include_aliases
    /\ \E k \in 1..Len(Items) :
          Items[k].name = "" /\ Items[k].terms = <<"px", "", "x">>
    /\ Len(out) >= 5

\* C5: a response with a non-success status ends the run as a failed fetch;
\* its body is never handed on as the catalog document.
FetchErrors == {"ConnectionError", "HTTPError"}

C5_NonSuccessIsFetchError ==
    (response # NoResponse /\ response.status # 200) =>
        /\ pc = "failed"
        /\ exc \in FetchErrors
        /\ icons_dict = Unparseable
        /\ out = <<>>

\* C6 as stated: a run over a catalog with an entry whose unicode field does
\* not decode never exits with status 0.
C6_AnyBadUnicodeFails ==
    (pc = "done") => \A k \in 1..Len(Items) : Decodes(Items[k])

\* C6 as amended: a run over a catalog with an entry that has a name to print
\* (a non-empty primary name, or with --include_aliases a non-empty alias) and
\* whose unicode field does not decode never exits with status 0.
C6_BadUnicodeOfPrintedEntryFails ==
    (pc = "done") =>
        \A k \in 1..Len(Items) :
            Surviving(Items[k], argv.include_aliases) # <<>> => Decodes(Items[k])

C6_Witness ==
    /\ pc = "failed"
    /\ exc = "ValueError"
    /\ idx = 2
    /\ ~Decodes(Items[2])
    /\ Items[2].name = ""
    /\ Len(out) = 4

\* C7: every line written is whole, the header or "(?i)NAME" = "SYMBOL"; a
\* run ended by a decode error has written the preamble and the lines of the
\* entries before the failing one, no more; nothing is written after a failure.
C7_LinesAreWhole ==
    /\ \A i \in 1..Len(out) :
          IF i = 1 THEN out[i] = <<"[icons]">> ELSE WellFormedLine(out[i])
    /\ (pc = "failed" /\ exc = "ValueError") =>
          out = Preamble \o ExpectedUpTo(idx - 1, argv.include_aliases)

C7_NothingAfterFailure == [][pc = "failed" => out' = out]_vars

C7_WholeLines == []C7_LinesAreWhole /\ C7_NothingAfterFailure

C7_Witness ==
    /\ pc = "failed"
    /\ exc = "ValueError"
    /\ idx = 2
    /\ argv.include_aliases
    /\ Len(out) = 6

\* C9: the run makes one GET, to
\* https://raw.githubusercontent.com/FortAwesome/Font-Awesome/<revision>/metadata/icons.yml
\* with the value of --revision, or master when the option is left out.
C9_OneGetToRevisionURI ==
    /\ Len(gets) = (IF pc \in {"start", "get"} THEN 0 ELSE 1)
    /\ \A i \in 1..Len(gets) :
          gets[i] =
             IF argv.given
             THEN "https://raw.githubusercontent.com/FortAwesome/Font-Awesome/"
                     \o argv.revision \o "/metadata/icons.yml"
             ELSE "https://raw.githubusercontent.com/FortAwesome/Font-Awesome/master/metadata/icons.yml"

C9_Witness ==
    /\ pc = "done"
    /\ argv.given
    /\ gets = <<"https://raw.githubusercontent.com/FortAwesome/Font-Awesome/v6/metadata/icons.yml">>

\* C10: nothing is written before the document is fetched and parsed: a run
\* whose request raises or whose body does not parse writes no line, and
\* whenever a line has been written a parsed document exists.
C10_NoOutputBeforeParse ==
    /\ pc \in {"start", "get", "load"} => out = <<>>
    /\ (pc = "failed" /\ exc \in {"ConnectionError", "YAMLError"}) => out = <<>>
    /\ out # <<>> => icons_dict.parses

C10_Witness ==
    /\ pc = "failed"
    /\ exc = "YAMLError"
    /\ response.status = 200
    /\ out = <<>>

\* C8: for a string of four hexadecimal digits, upper or lower case,
\* unicode_symbol returns one character, whose code point is the value of the
\* string read in base 16; for "f120" it is U+F120.
LowerDigits == <<"0", "1", "2", "3", "4", "5", "6", "7", "8", "9",
                 "a", "b", "c", "d", "e", "f">>
UpperDigits == <<"0", "1", "2", "3", "4", "5", "6", "7", "8", "9",
                 "A", "B", "C", "D", "E", "F">>
IsHexDigit(c) == \E k \in 1..16 : LowerDigits[k] = c \/ UpperDigits[k] = c
Base16(c) == (CHOOSE k \in 1..16 : LowerDigits[k] = c \/ UpperDigits[k] = c) - 1

C8_CodePointIsBase16Value ==
    (pc = "returned" /\ Len(hex_code) = 4
        /\ \A i \in 1..4 : IsHexDigit(hex_code[i])) =>
        /\ symbol.ok
        /\ symbol.val = 4096 * Base16(hex_code[1]) + 256 * Base16(hex_code[2])
                          + 16 * Base16(hex_code[3]) + Base16(hex_code[4])
        /\ hex_code = <<"f", "1", "2", "0">> => symbol.val = 61728

C8_Witness ==
    /\ pc = "returned"
    /\ hex_code = <<"F", "1", "2", "a">>
    /\ symbol = [ok |-> TRUE, val |-> 61738, exc |-> "none"]

====
